---- MODULE Spec2Model ----
(***************************************************************************)
(* auto-patchelf: the dependency resolver, the library cache, the          *)
(* incremental state store and the run aggregator, as a state machine.     *)
(*                                                                         *)
(* A path is the sequence of its components; an absolute path starts with  *)
(* the root component "/".  The file system, the command line and the      *)
(* persisted state records are chosen in the initial state and (apart from *)
(* modification times and the state records) never change during a run.    *)
(***************************************************************************)
EXTENDS Naturals, Sequences, FiniteSets, TLC

VARIABLES
    cli,            \* Cli: patch and libraries configuration
    fs,             \* path -> file (kind, symlink target, ELF content)
    mtime,          \* path -> modification time
    store,          \* root -> persisted ".auto-patchelf.state" record
    interpreter,    \* ElfFile of the dynamic linker: [arch, osabi]
    pc,             \* position of the main flow in auto_patchelf
    root_idx,       \* index into cli.paths of the root being walked
    walk,           \* remaining paths of the current root's glob
    state,          \* DirState.cache of the current root
    cur,            \* file whose auto_patchelf_file call awaits the cache
    all_dependencies, \* Vec<Dependency> accumulated over the run
    run_result,     \* "none" | "ok" | "err_no_paths" | "err_missing"
    wpc,            \* cache worker: "unspawned" | "phase1" | "phase2" | "ok" | "err"
    lib_dirs,       \* populate_cache: queue of directories still to scan
    cached_paths,   \* LibraryCache.cached_paths
    soname_cache,   \* LibraryCache.soname_cache: <<soname, arch>> -> <<[dir, osabi]>>
    handle_taken,   \* SharedHandle.handle has been taken (joined)
    result_cell,    \* SharedHandle.result: "unset" | "ok" | "err"
    scans,          \* log: directories globbed by populate_cache, in order
    discovered,     \* log: libraries recorded by populate_cache, in order
    lookups,        \* log: find_dependency calls made by the resolver
    resolved,       \* log: one record per file that went through auto_patchelf_file
    interp_calls,   \* log: patchelf --set-interpreter invocations
    rpath_calls,    \* log: patchelf --set-rpath invocations
    prev            \* what the run before this one left: none, or one snapshot

vars == <<cli, fs, mtime, store, interpreter, pc, root_idx, walk, state, cur,
          all_dependencies, run_result, wpc, lib_dirs, cached_paths,
          soname_cache, handle_taken, result_cell, scans, discovered, lookups,
          resolved, interp_calls, rpath_calls, prev>>

-----------------------------------------------------------------------------
(* Bounds of the model *)

MaxDeps == 2        \* alternative-sets of the varied target file
MaxAppend == 2      \* entries of --append-rpaths
MaxRunpath == 1     \* entries of a library's runpath
MaxMtime == 3       \* modification times are 1..MaxMtime

-----------------------------------------------------------------------------
(* ELF header values (goblin::elf::header) *)

ELFOSABI_SYSV == 0
ELFOSABI_LINUX == 3
ELFOSABI_FREEBSD == 9
EM_X86_64 == 62
EM_AARCH64 == 183

OsAbis == {ELFOSABI_SYSV, ELFOSABI_LINUX, ELFOSABI_FREEBSD}
Archs == {EM_X86_64, EM_AARCH64}

\* DirState::VERSION
VERSION == 1

-----------------------------------------------------------------------------
(* Sequences *)

Range(s) == {s[i] : i \in 1..Len(s)}

Last(s) == s[Len(s)]

Front(s) == SubSeq(s, 1, Len(s) - 1)

SeqsUpTo(S, n) == UNION {[1..k -> S] : k \in 0..n}

\* the subsequence of s of the elements in S
FilterSeq(s, S) == SelectSeq(s, LAMBDA x : x \in S)

RECURSIVE Flatten(_)
Flatten(ss) == IF ss = <<>> THEN <<>> ELSE Head(ss) \o Flatten(Tail(ss))

\* all orderings of the finite set S, as sequences without repetition
Orderings(S) ==
    {s \in [1..Cardinality(S) -> S] : \A i, j \in 1..Cardinality(S) : s[i] = s[j] => i = j}

-----------------------------------------------------------------------------
(* std::path *)

None == "None"

\* Path::is_absolute
is_absolute(p) == Len(p) > 0 /\ p[1] = "/"

\* Path::join: an absolute argument replaces the base
join(base, p) == IF is_absolute(p) THEN p ELSE base \o p

\* Path::file_name: None for the empty path, the root, or a path ending in ".."
file_name(p) ==
    IF p = <<>> \/ Last(p) = "/" \/ Last(p) = ".." THEN None ELSE Last(p)

\* Path::parent
parent(p) == IF Len(p) <= 1 THEN <<>> ELSE Front(p)

\* Path::starts_with / strip_prefix
starts_with(p, base) == Len(base) <= Len(p) /\ SubSeq(p, 1, Len(base)) = base

strip_prefix(p, base) == SubSeq(p, Len(base) + 1, Len(p))

RECURSIVE display(_)
\* Path::display: the components joined by "/"
display(p) ==
    IF p = <<>> THEN ""
    ELSE IF Len(p) = 1 THEN p[1]
    ELSE IF p[1] = "/" THEN "/" \o display(Tail(p))
    ELSE p[1] \o "/" \o display(Tail(p))

-----------------------------------------------------------------------------
(* The "any(a, b)" label of an unresolved alternative-set with several     *)
(* candidates: format!("any({})", names.join(", ")) read back by           *)
(* PathBuf::from, which splits the text at every "/".                      *)

\* the pieces of display(p) between "/" separators
Pieces(p) ==
    IF p = <<>> THEN <<"">>
    ELSE IF is_absolute(p) THEN (IF Len(p) = 1 THEN <<"", "">> ELSE <<"">> \o Tail(p))
    ELSE p

\* text appended to the last (still open) segment
AppendStr(segs, s) == [segs EXCEPT ![Len(segs)] = @ \o s]

\* pieces appended: the first continues the open segment, the others follow
AppendPieces(segs, pcs) == AppendStr(segs, pcs[1]) \o Tail(pcs)

RECURSIVE JoinNames(_, _, _)
\* segs extended by the display of dep[i..], separated by ", "
JoinNames(segs, dep, i) ==
    IF i > Len(dep) THEN segs
    ELSE JoinNames(AppendPieces(IF i = 1 THEN segs ELSE AppendStr(segs, ", "),
                                Pieces(dep[i])),
                   dep, i + 1)

RECURSIVE Components(_)
\* PathBuf::from of a relative text: empty and "." segments are dropped
Components(segs) ==
    IF segs = <<>> THEN <<>>
    ELSE IF Head(segs) \in {"", "."} THEN Components(Tail(segs))
    ELSE <<Head(segs)>> \o Components(Tail(segs))

any_name(dep) == Components(AppendStr(JoinNames(<<"any(">>, dep, 1), ")"))

\* the name an unresolved alternative-set is reported under
dep_name(dep) == IF Len(dep) = 1 THEN dep[1] ELSE any_name(dep)

-----------------------------------------------------------------------------
(* goblin's view of a file: ElfFile and its accessors *)

\* goblin::elf::header::e_type values used by the classification
ElfTypes == {"ET_EXEC", "ET_DYN"}

\* ElfFile::new: whether the bytes parse
ElfParses(f) == f.elf

get_arch(f) == f.arch

get_osabi(f) == f.osabi

has_program_headers(f) == f.phdrs # {}

is_static_executable(f) == f.etype = "ET_EXEC" /\ "PT_INTERP" \notin f.phdrs

is_dynamic_executable(f) == "PT_INTERP" \in f.phdrs

\* DT_RUNPATH first, DT_RPATH as the fall back; the raw text is split at ":"
get_rpath(f) ==
    IF f.has_runpath THEN f.runpath
    ELSE IF f.has_rpath THEN f.rpath
    ELSE <<>>

\* one single-candidate set per DT_NEEDED, then one set per non-empty
\* .note.dlopen soname array
get_dependencies(f) ==
    [i \in 1..Len(f.needed) |-> <<f.needed[i]>>] \o FilterSeq(f.dlopen, Range(f.dlopen) \ {<<>>})

\* compatibility decided by the wanted tag alone
osabi_wanted_only(wanted, got) == wanted = ELFOSABI_SYSV \/ wanted = got

osabi_are_compatible(wanted, got) ==
    IF wanted = ELFOSABI_SYSV \/ got = ELFOSABI_SYSV THEN TRUE
    ELSE wanted = got

-----------------------------------------------------------------------------
(* std::fs over the modelled file system *)

\* Path::is_symlink
is_symlink(p) == p \in DOMAIN fs /\ fs[p].kind = "symlink"

\* Path::canonicalize, for the symbolic links of the model (links to files)
canonicalize(p) == IF is_symlink(p) THEN fs[p].target ELSE p

\* Path::is_file: follows symbolic links
is_file(p) ==
    /\ p \in DOMAIN fs
    /\ canonicalize(p) \in DOMAIN fs
    /\ fs[canonicalize(p)].kind = "file"

\* the bytes read_file returns, as the file they belong to
Content(p) == fs[canonicalize(p)]

\* read_file succeeds
Readable(p) == Content(p).readable

\* the first four bytes are 0x7f 'E' 'L' 'F'
HasElfMagic(p) == Content(p).magic

-----------------------------------------------------------------------------
(* LibraryCache::find_dependency.  An Option<PathBuf> is a sequence of     *)
(* zero or one path.                                                       *)

RECURSIVE FirstCompatible(_, _)
\* libs.iter().find(|(_, libabi)| osabi_are_compatible(soabi, *libabi))
FirstCompatible(libs, soabi) ==
    IF libs = <<>> THEN <<>>
    ELSE IF osabi_are_compatible(soabi, Head(libs).osabi) THEN <<Head(libs).dir>>
    ELSE FirstCompatible(Tail(libs), soabi)

RECURSIVE LastCompatible(_, _)
\* the same search from the back of the list
LastCompatible(libs, soabi) ==
    IF libs = <<>> THEN <<>>
    ELSE IF osabi_are_compatible(soabi, Last(libs).osabi) THEN <<Last(libs).dir>>
    ELSE LastCompatible(Front(libs), soabi)

\* find_dependency taking the latest compatible entry instead of the earliest
find_dependency_last(cache, soname, soarch, soabi) ==
    IF <<soname, soarch>> \in DOMAIN cache
    THEN LastCompatible(cache[<<soname, soarch>>], soabi)
    ELSE <<>>

find_dependency(cache, soname, soarch, soabi) ==
    IF <<soname, soarch>> \in DOMAIN cache
    THEN FirstCompatible(cache[<<soname, soarch>>], soabi)
    ELSE <<>>

-----------------------------------------------------------------------------
(* auto_patchelf_file: the candidate loop                                  *)

NotFound == [found |-> FALSE, via |-> "none", dir |-> <<>>, looked |-> FALSE]

\* TryCandidate with the library cache consulted before the absolute-path and
\* libc rules
TryCandidateCacheFirst(candidate, elf_file, cache, libc_lib, keep_libc) ==
    LET is_libc == is_file(join(libc_lib, candidate))
        hit == find_dependency(cache, file_name(candidate),
                               get_arch(elf_file), get_osabi(elf_file))
    IN  IF file_name(candidate) # None /\ hit # <<>>
        THEN [found |-> TRUE, via |-> "cache", dir |-> hit, looked |-> TRUE]
        ELSE IF is_absolute(candidate) /\ is_file(candidate)
        THEN [found |-> TRUE, via |-> "absolute", dir |-> <<>>, looked |-> FALSE]
        ELSE IF is_libc /\ ~keep_libc
        THEN [found |-> TRUE, via |-> "libc", dir |-> <<>>, looked |-> FALSE]
        ELSE [NotFound EXCEPT !.looked = file_name(candidate) # None]

\* TryCandidate with the libc rule applied whatever keep_libc says
TryCandidateLibcAlways(candidate, elf_file, cache, libc_lib, keep_libc) ==
    LET is_libc == is_file(join(libc_lib, candidate))
        hit == find_dependency(cache, file_name(candidate),
                               get_arch(elf_file), get_osabi(elf_file))
    IN  IF is_absolute(candidate) /\ is_file(candidate)
        THEN [found |-> TRUE, via |-> "absolute", dir |-> <<>>, looked |-> FALSE]
        ELSE IF is_libc
        THEN [found |-> TRUE, via |-> "libc", dir |-> <<>>, looked |-> FALSE]
        ELSE IF file_name(candidate) # None /\ hit # <<>>
        THEN [found |-> TRUE, via |-> "cache", dir |-> hit, looked |-> TRUE]
        ELSE [NotFound EXCEPT !.looked = file_name(candidate) # None]

\* one pass of the body of `for candidate in &dep`
TryCandidate(candidate, elf_file, cache, libc_lib, keep_libc) ==
    LET is_libc == is_file(join(libc_lib, candidate))
        hit == find_dependency(cache, file_name(candidate),
                               get_arch(elf_file), get_osabi(elf_file))
    IN  IF is_absolute(candidate) /\ is_file(candidate)
        THEN [found |-> TRUE, via |-> "absolute", dir |-> <<>>, looked |-> FALSE]
        ELSE IF is_libc /\ ~keep_libc
        THEN [found |-> TRUE, via |-> "libc", dir |-> <<>>, looked |-> FALSE]
        ELSE IF file_name(candidate) # None
        THEN IF hit # <<>>
             THEN [found |-> TRUE, via |-> "cache", dir |-> hit, looked |-> TRUE]
             ELSE [NotFound EXCEPT !.looked = TRUE]
        ELSE IF is_libc /\ keep_libc
        THEN [found |-> TRUE, via |-> "libc_kept", dir |-> <<>>, looked |-> FALSE]
        ELSE NotFound

RECURSIVE TryFrom(_, _, _, _, _, _)
\* the candidates dep[i..] in order, up to the first that resolves:
\* [found, via, dir, idx (of the resolving candidate, else 0), tried]
TryFrom(dep, i, elf_file, cache, libc_lib, keep_libc) ==
    IF i > Len(dep)
    THEN [found |-> FALSE, via |-> "none", dir |-> <<>>, idx |-> 0, tried |-> <<>>]
    ELSE LET r == TryCandidate(dep[i], elf_file, cache, libc_lib, keep_libc)
             t == [candidate |-> dep[i], looked |-> r.looked, hit |-> r.dir]
         IN  IF r.found
             THEN [found |-> TRUE, via |-> r.via, dir |-> r.dir, idx |-> i, tried |-> <<t>>]
             ELSE LET rest == TryFrom(dep, i + 1, elf_file, cache, libc_lib, keep_libc)
                  IN  [rest EXCEPT !.tried = <<t>> \o @]

\* the outcome of one alternative-set
ResolveSet(dep, elf_file, cache, libc_lib, keep_libc) ==
    TryFrom(dep, 1, elf_file, cache, libc_lib, keep_libc)

\* the outcomes of `for dep in file_dependencies`, one per alternative-set
ResolveAll(deps, elf_file, cache, libc_lib, keep_libc) ==
    [k \in 1..Len(deps) |-> ResolveSet(deps[k], elf_file, cache, libc_lib, keep_libc)]

\* the directories the loop pushes to rpath, in order
Pushed(outcomes) == Flatten([k \in 1..Len(outcomes) |-> outcomes[k].dir])

\* a record pushed for every set, resolved by whichever rule
SetRecordsForEverySet(path, dep, o) ==
    IF o.found
    THEN <<[file |-> path, name |-> dep[o.idx], found |-> TRUE]>>
    ELSE <<[file |-> path, name |-> dep_name(dep), found |-> FALSE]>>

\* the Dependency records the loop pushes for the set deps[k]
SetRecords(path, dep, o) ==
    IF o.found
    THEN IF o.via = "cache"
         THEN <<[file |-> path, name |-> dep[o.idx], found |-> TRUE]>>
         ELSE <<>>
    ELSE <<[file |-> path, name |-> dep_name(dep), found |-> FALSE]>>

Dependencies(path, deps, outcomes) ==
    Flatten([k \in 1..Len(deps) |-> SetRecords(path, deps[k], outcomes[k])])

RECURSIVE DedupFirst(_)
\* s without the later occurrences of an element
DedupFirst(s) ==
    IF s = <<>> THEN <<>>
    ELSE LET f == DedupFirst(Front(s))
         IN  IF Last(s) \in Range(f) THEN f ELSE Append(f, Last(s))

\* the orders unique_paths.keys() can come out in: the iteration order of a
\* HashMap with the default (randomly seeded) hasher is arbitrary
DedupedRpaths(rpath) == Orderings(Range(rpath))

-----------------------------------------------------------------------------
(* The directories and files the model's file systems are made of *)

OUT == <<"/", "out">>
OUT2 == <<"/", "out2">>
L1 == <<"/", "l1">>
L2 == <<"/", "l2">>
L3 == <<"/", "l3">>
RT == <<"/", "rt">>
LIBC_LIB == <<"/", "libc", "lib">>

\* every path a modelled file system may hold, in the (sorted) order in which
\* glob yields paths
GlobOrder ==
    << <<"/", "abs", "libfoo.so.1">>,
       L1 \o <<"libc.so.6">>, L1 \o <<"libfoo.so.1">>,
       L2 \o <<"libbar.so.2">>, L2 \o <<"libfoo.so.1">>,
       L3 \o <<"libssl.so.3">>,
       LIBC_LIB \o <<"libc.so.6">>,
       OUT \o <<"app">>, OUT \o <<"libfoo.so.1">>, OUT \o <<"libown.so">>,
       OUT \o <<"notes.txt">>,
       OUT \o <<"sub">>, OUT \o <<"sub", "libown.so">>,
       OUT2 \o <<"tool">> >>

\* glob::Pattern::matches for the two patterns the program globs with
MatchesGlob(pattern, name) ==
    IF pattern = "*" THEN TRUE
    ELSE \* "*.so*"
         name \in {"libfoo.so.1", "libc.so.6", "libbar.so.2", "libssl.so.3", "libown.so"}

\* misc::glob: dir/pattern, or dir/**/pattern when recursive
glob(dir, pattern, recursive) ==
    SelectSeq(GlobOrder,
              LAMBDA p : /\ p \in DOMAIN fs
                         /\ Len(p) > Len(dir) /\ starts_with(p, dir)
                         /\ (recursive \/ Len(p) = Len(dir) + 1)
                         /\ MatchesGlob(pattern, Last(p)))

-----------------------------------------------------------------------------
(* LibraryCache::populate_cache *)

\* every runpath entry added to the queue
QueuedRpathUnfiltered(elf) == get_rpath(elf)

\* the runpath entries a library adds to the queue
QueuedRpath(elf) ==
    FilterSeq(get_rpath(elf), {p \in Range(get_rpath(elf)) : p # <<>> /\ "$ORIGIN" \notin Range(p)})

\* path.canonicalize() kept only when it preserves the file name
ResolvedPath(path) ==
    IF file_name(canonicalize(path)) = file_name(path) THEN canonicalize(path) ELSE path

RECURSIVE ScanFiles(_, _)
\* the body of `for path in glob(..)` over the paths still to visit; acc is
\* [ok, dirs, entries]: read_file's error ends the scan (and the population)
ScanFiles(paths, acc) ==
    IF paths = <<>> THEN acc
    ELSE LET path == Head(paths) IN
         IF ~is_file(path) THEN ScanFiles(Tail(paths), acc)
         ELSE IF ~Readable(path) THEN [acc EXCEPT !.ok = FALSE]
         ELSE IF ~ElfParses(Content(path)) THEN ScanFiles(Tail(paths), acc)
         ELSE LET elf == Content(path)
                  entry == [soname |-> file_name(path), arch |-> get_arch(elf),
                            dir |-> parent(ResolvedPath(path)), osabi |-> get_osabi(elf)]
              IN  ScanFiles(Tail(paths),
                            [acc EXCEPT !.dirs = @ \o QueuedRpath(elf),
                                        !.entries = IF file_name(path) # None
                                                    THEN Append(@, entry) ELSE @])

ScanDir(lib_dir, recursive) ==
    ScanFiles(glob(lib_dir, "*.so*", recursive), [ok |-> TRUE, dirs |-> <<>>, entries |-> <<>>])

RECURSIVE CacheWith(_, _)
\* soname_cache.entry(key).or_default().push((dir, osabi)) for each entry
CacheWith(cache, entries) ==
    IF entries = <<>> THEN cache
    ELSE LET e == Head(entries)
             key == <<e.soname, e.arch>>
             item == [dir |-> e.dir, osabi |-> e.osabi]
         IN  CacheWith(IF key \in DOMAIN cache
                       THEN [cache EXCEPT ![key] = Append(@, item)]
                       ELSE cache @@ (key :> <<item>>),
                       Tail(entries))

\* one pass of `while !lib_dirs.is_empty()`
PopulateStep ==
    /\ wpc \in {"phase1", "phase2"}
    /\ lib_dirs # <<>>
    /\ \E lib_dir \in {Head(lib_dirs)} :
       \E r \in {ScanDir(lib_dir, wpc = "phase1" /\ cli.recurse)} :
           IF lib_dir \in cached_paths
           THEN /\ lib_dirs' = Tail(lib_dirs)
                /\ UNCHANGED <<wpc, cached_paths, soname_cache, scans, discovered>>
           ELSE /\ cached_paths' = cached_paths \cup {lib_dir}
                /\ scans' = Append(scans, lib_dir)
                /\ lib_dirs' = Tail(lib_dirs) \o r.dirs
                /\ soname_cache' = CacheWith(soname_cache, r.entries)
                /\ discovered' = discovered \o r.entries
                /\ wpc' = IF r.ok THEN wpc ELSE "err"
    /\ UNCHANGED <<prev, cli, fs, mtime, store, interpreter, pc, root_idx, walk, state, cur,
                   all_dependencies, run_result, handle_taken, result_cell, lookups,
                   resolved, interp_calls, rpath_calls>>

\* a visited set that starts empty at every populate_cache call
CarriedOverNothing(cached) == {}

\* the visited set the second populate_cache call starts with: the worker calls
\* populate_cache twice on one LibraryCache, whose cached_paths it never clears
CarriedOver(cached) == cached

\* populate_cache returns Ok: the worker goes on to the explicit library
\* directories, or ends with the cache
PopulateReturn ==
    /\ wpc \in {"phase1", "phase2"}
    /\ lib_dirs = <<>>
    /\ wpc' = IF wpc = "phase1" THEN "phase2" ELSE "ok"
    /\ lib_dirs' = IF wpc = "phase1" THEN cli.libraries ELSE <<>>
    /\ cached_paths' = CarriedOver(cached_paths)
    /\ UNCHANGED <<prev, cli, fs, mtime, store, interpreter, pc, root_idx, walk, state, cur,
                   all_dependencies, run_result, soname_cache,
                   handle_taken, result_cell, scans, discovered, lookups, resolved,
                   interp_calls, rpath_calls>>

-----------------------------------------------------------------------------
(* DirState: the incremental state of one root.  A persisted record is     *)
(* [tag_read, version, decodes, cache]: whether the fixed-width version    *)
(* tag can be read, its value, whether the mapping after it decodes, and   *)
(* the mapping (root-relative path -> modification time).                  *)

EmptyCache == [p \in {} |-> 0]

\* the record of a state file that was just created (or is empty)
NewRecord == [tag_read |-> FALSE, version |-> 0, decodes |-> FALSE, cache |-> EmptyCache]

\* the mapping taken whatever the version tag says
deserialize_cache_any_version(rec) ==
    IF ~rec.tag_read THEN EmptyCache
    ELSE IF ~rec.decodes THEN EmptyCache
    ELSE rec.cache

\* DirState::deserialize_cache, with deserialize's unwrap_or_default
deserialize_cache(rec) ==
    IF ~rec.tag_read THEN EmptyCache
    ELSE IF rec.version # VERSION THEN EmptyCache
    ELSE IF ~rec.decodes THEN EmptyCache
    ELSE rec.cache

\* DirState::serialize
serialize(cache) == [tag_read |-> TRUE, version |-> VERSION, decodes |-> TRUE, cache |-> cache]

\* DirState::up_to_date
up_to_date(cache, path, t) == path \in DOMAIN cache /\ t = cache[path]

\* an entry that exists is kept as it is
update_keep_first(cache, path, t) ==
    IF path \in DOMAIN cache THEN cache ELSE cache @@ (path :> t)

\* DirState::update
update(cache, path, t) ==
    IF path \in DOMAIN cache THEN [cache EXCEPT ![path] = t] ELSE cache @@ (path :> t)

-----------------------------------------------------------------------------
(* auto_patchelf: the aggregation of missing dependencies *)

\* glob::Pattern::new(pattern).map(|p| p.matches(name)).unwrap_or(false), for
\* the ignore patterns and the names of the model; "[" is no valid pattern
PatternMatches(pattern, name) ==
    CASE pattern = "*" -> TRUE
      [] pattern = "libssl*" -> name = "libssl.so.3"
      [] pattern = "libmissing.so.7" -> name = "libmissing.so.7"
      [] pattern = "sub*" -> name = "sub/libssl.so.3"
      [] OTHER -> FALSE

\* Ignored with the patterns matched against the whole reported name
IgnoredByFullName(dep, patterns) ==
    \E i \in 1..Len(patterns) : PatternMatches(patterns[i], display(dep.name))

\* the inner loop over cli.patch.ignore_missing for one missing dependency
Ignored(dep, patterns) ==
    /\ file_name(dep.name) # None
    /\ \E i \in 1..Len(patterns) : PatternMatches(patterns[i], file_name(dep.name))

\* `failure` after the loop over the missing dependencies
Failure(deps, patterns) ==
    \E i \in 1..Len(deps) : ~deps[i].found /\ ~Ignored(deps[i], patterns)

-----------------------------------------------------------------------------
(* auto_patchelf: the main flow *)

NoCur == [file |-> <<>>, rpath |-> <<>>]

\* the caller's prepend directories given to every file
InitialRpathAlways(elf_file) == cli.runtime_dependencies

\* rpath when the candidate loop starts: the interpreter branch extends it by
\* the caller's runtime dependencies
InitialRpath(elf_file) ==
    IF is_dynamic_executable(elf_file) THEN cli.runtime_dependencies ELSE <<>>

Root == cli.paths[root_idx]

\* the modification times a file can show after patchelf rewrote it (st_mtime
\* counts whole seconds: a rewrite within the second leaves it as it was)
Touched(t) == {t, t + 1} \cap (1..MaxMtime)

\* the entry of the `resolved` log for one auto_patchelf_file call
Resolution(path, status, deps, outcomes, rpath) ==
    [file |-> path, status |-> status, deps |-> deps, outcomes |-> outcomes, rpath |-> rpath]

\* the target roots seeded whatever the toggle says
AddExistingAlways(c) == TRUE

\* `if add_existing { library_cache.populate_cache(&paths, recurse)?; }`
AddExisting(c) == c.add_existing

\* the worker spawned before the target paths are looked at
StartSpawnsFirst ==
    /\ pc = "start"
    /\ wpc' = IF cli.add_existing THEN "phase1" ELSE "phase2"
    /\ lib_dirs' = IF cli.add_existing THEN cli.paths ELSE cli.libraries
    /\ IF cli.paths = <<>>
       THEN run_result' = "err_no_paths" /\ pc' = "done"
       ELSE pc' = "root" /\ UNCHANGED run_result
    /\ UNCHANGED <<prev, cli, fs, mtime, store, interpreter, root_idx, walk, state, cur,
                   all_dependencies, cached_paths, soname_cache, handle_taken,
                   result_cell, scans, discovered, lookups, resolved, interp_calls,
                   rpath_calls>>

\* auto_patchelf up to the spawn of the cache worker
Start ==
    /\ pc = "start"
    /\ IF cli.paths = <<>>
       THEN /\ run_result' = "err_no_paths"
            /\ pc' = "done"
            /\ UNCHANGED <<wpc, lib_dirs>>
       ELSE /\ pc' = "root"
            /\ wpc' = IF AddExisting(cli) THEN "phase1" ELSE "phase2"
            /\ lib_dirs' = IF AddExisting(cli) THEN cli.paths ELSE cli.libraries
            /\ UNCHANGED run_result
    /\ UNCHANGED <<prev, cli, fs, mtime, store, interpreter, root_idx, walk, state, cur,
                   all_dependencies, cached_paths, soname_cache, handle_taken,
                   result_cell, scans, discovered, lookups, resolved, interp_calls,
                   rpath_calls>>

\* DirState::deserialize(path) and the glob of the root
OpenRoot ==
    /\ pc = "root"
    /\ state' = deserialize_cache(store[Root])
    /\ walk' = glob(Root, "*", cli.recurse)
    /\ pc' = "walk"
    /\ UNCHANGED <<prev, cli, fs, mtime, store, interpreter, root_idx, cur, all_dependencies,
                   run_result, wpc, lib_dirs, cached_paths, soname_cache, handle_taken,
                   result_cell, scans, discovered, lookups, resolved, interp_calls,
                   rpath_calls>>

\* a resolver error passed on with `?`: the run ends there
AfterFileStrict(status) == IF status \in {"ok", "skipped"} THEN "walk" ELSE "done"

\* `.inspect_err(..).and_then(..).unwrap_or_default()`: the error of a file is
\* printed and dropped, the walk goes on with the next file
AfterFile(status) == "walk"

\* the early returns of auto_patchelf_file that leave the file untouched
Skipped(elf_file) ==
    \/ ~ElfParses(elf_file)
    \/ is_static_executable(elf_file)
    \/ has_program_headers(elf_file)
    \/ get_arch(interpreter) # get_arch(elf_file)
    \/ ~osabi_are_compatible(get_osabi(interpreter), get_osabi(elf_file))

\* one pass of `for file_path in glob(path, "*", recurse)`, up to the point
\* where auto_patchelf_file asks for the library cache
WalkFile ==
    /\ pc = "walk"
    /\ walk # <<>>
    /\ walk' = Tail(walk)
    /\ LET file_path == Head(walk)
           cache_path == strip_prefix(file_path, Root)
           elf_file == Content(file_path)
       IN  IF \/ is_symlink(file_path) \/ ~is_file(file_path)
              \/ ~HasElfMagic(file_path)
              \/ up_to_date(state, cache_path, mtime[file_path])
           THEN UNCHANGED <<pc, cur, state, mtime, resolved, interp_calls>>
           ELSE IF Skipped(elf_file)
           THEN /\ state' = update(state, cache_path, mtime[file_path])
                /\ resolved' = Append(resolved,
                                      Resolution(file_path, "skipped", <<>>, <<>>, <<>>))
                /\ UNCHANGED <<pc, cur, mtime, interp_calls>>
           ELSE IF is_dynamic_executable(elf_file)
           THEN \E ok \in BOOLEAN : \E t \in Touched(mtime[file_path]) :
                /\ interp_calls' = Append(interp_calls, [file |-> file_path, ok |-> ok])
                /\ IF ok
                   THEN /\ mtime' = [mtime EXCEPT ![file_path] = t]
                        /\ cur' = [file |-> file_path, rpath |-> InitialRpath(elf_file)]
                        /\ pc' = "await"
                        /\ UNCHANGED <<state, resolved>>
                   ELSE /\ t = mtime[file_path]
                        /\ resolved' = Append(resolved,
                               Resolution(file_path, "err_interpreter", <<>>, <<>>, <<>>))
                        /\ pc' = AfterFile("err_interpreter")
                        /\ UNCHANGED <<cur, state, mtime>>
           ELSE /\ cur' = [file |-> file_path, rpath |-> InitialRpath(elf_file)]
                /\ pc' = "await"
                /\ UNCHANGED <<state, mtime, resolved, interp_calls>>
    /\ UNCHANGED <<prev, cli, fs, store, interpreter, root_idx, all_dependencies, run_result,
                   wpc, lib_dirs, cached_paths, soname_cache, handle_taken, result_cell,
                   scans, discovered, lookups, rpath_calls>>


\* the modification time the file had before the resolver ran
RecordedMtimeBefore(before, after) == before

\* `file_path.metadata()?.mtime()` inside and_then: read again after the
\* resolver returned
RecordedMtime(before, after) == after

\* the worker has ended whatever it was spawned
JoinedEarly == wpc # "unspawned"

\* JoinHandle::join returns once the worker thread has ended
Joined == wpc \in {"ok", "err"}

\* the outcome is kept only until it was handed out once
get_result_forgets(cell, outcome) == IF cell = "unset" THEN outcome ELSE "ok"

\* SharedHandle::get_result: OnceCell::get_or_init keeps the first outcome of
\* the join and hands it out at every call
get_result(cell, outcome) == IF cell = "unset" THEN outcome ELSE cell

\* a failed rewrite of the search path returned as an error
AfterSetRpathStrict(ok) == IF ok THEN "ok" ELSE "err_rpath"

\* what auto_patchelf_file returns after set_rpath: `.status().ok()` drops the
\* outcome of the patchelf command
AfterSetRpath(ok) == "ok"

\* the rewrite run for every list
SetRpathAlways(calls, call) == Append(calls, call)

\* `if !deduped_rpath.is_empty()`: the set_rpath calls made so far, with this one
SetRpath(calls, call) == IF call.rpath = <<>> THEN calls ELSE Append(calls, call)

\* the state entry written whatever the resolver returned
UpdatedStateAlways(status, st, cache_path, t) == update(st, cache_path, t)

\* the and_then closure of the caller runs for Ok(deps) only: state.update
UpdatedState(status, st, cache_path, t) ==
    IF status = "ok" THEN update(st, cache_path, t) ELSE st

\* the and_then closure of the caller: all_dependencies.extend(deps)
Extended(status, all, deps) == IF status = "ok" THEN all \o deps ELSE all

\* the find_dependency calls behind the outcomes of one file, in order
LookupsOf(elf_file, outcomes) ==
    LET tried == Flatten([k \in 1..Len(outcomes) |-> outcomes[k].tried])
        made == FilterSeq(tried, {t \in Range(tried) : t.looked})
    IN  [i \in 1..Len(made) |->
            [soname |-> file_name(made[i].candidate), arch |-> get_arch(elf_file),
             osabi |-> get_osabi(elf_file), hit |-> made[i].hit]]

\* auto_patchelf_file from library_computation.get_result() to its return, and
\* the and_then of the caller.  get_result joins the worker on its first call,
\* so that call waits for the worker to end.
Resolve ==
    /\ pc = "await"
    /\ Joined
    /\ handle_taken' = TRUE
    /\ result_cell' = get_result(result_cell, wpc)
    /\ cur' = NoCur
    /\ LET path == cur.file
           cache_path == strip_prefix(path, Root)
           elf_file == Content(path)
           deps == get_dependencies(elf_file)
           outcomes == ResolveAll(deps, elf_file, soname_cache, LIBC_LIB, cli.keep_libc)
           rpath == cur.rpath \o Pushed(outcomes) \o cli.append_rpaths
       IN  IF result_cell' = "err"
           THEN /\ resolved' = Append(resolved,
                                      Resolution(path, "err_cache", <<>>, <<>>, <<>>))
                /\ state' = UpdatedState("err_cache", state, cache_path, mtime[path])
                /\ all_dependencies' = Extended("err_cache", all_dependencies, <<>>)
                /\ pc' = AfterFile("err_cache")
                /\ UNCHANGED <<mtime, lookups, rpath_calls>>
           ELSE \E deduped_rpath \in DedupedRpaths(rpath) :
                \E ok \in (IF deduped_rpath = <<>> THEN {TRUE} ELSE BOOLEAN) :
                \E t \in (IF ok /\ deduped_rpath # <<>>
                          THEN Touched(mtime[path]) ELSE {mtime[path]}) :
                LET status == AfterSetRpath(ok) IN
                /\ rpath_calls' = SetRpath(rpath_calls,
                                           [file |-> path, rpath |-> deduped_rpath,
                                            accumulated |-> rpath, ok |-> ok])
                /\ mtime' = [mtime EXCEPT ![path] = t]
                /\ lookups' = lookups \o LookupsOf(elf_file, outcomes)
                /\ resolved' = Append(resolved,
                                      Resolution(path, status, deps, outcomes, rpath))
                /\ state' = UpdatedState(status, state, cache_path,
                                          RecordedMtime(mtime[path], t))
                /\ pc' = AfterFile(status)
                /\ all_dependencies' =
                       Extended(status, all_dependencies, Dependencies(path, deps, outcomes))
    /\ UNCHANGED <<prev, cli, fs, store, interpreter, root_idx, walk, run_result, wpc, lib_dirs,
                   cached_paths, soname_cache, scans, discovered, interp_calls>>

\* the state file left as it was when a dependency is missing so far
PersistedUnlessMissing(old, st, all) ==
    IF \E n \in 1..Len(all) : ~all[n].found THEN old ELSE serialize(st)

\* `state.serialize()?` after the walk of each root, before the missing
\* dependencies are looked at
Persisted(old, st, all) == serialize(st)

\* state.serialize() at the end of a root's walk, and the step to the next root
CloseRoot ==
    /\ pc = "walk"
    /\ walk = <<>>
    /\ store' = [store EXCEPT ![Root] = Persisted(store[Root], state, all_dependencies)]
    /\ state' = EmptyCache
    /\ IF root_idx < Len(cli.paths)
       THEN root_idx' = root_idx + 1 /\ pc' = "root"
       ELSE root_idx' = root_idx /\ pc' = "aggregate"
    /\ UNCHANGED <<prev, cli, fs, mtime, interpreter, walk, cur, all_dependencies, run_result,
                   wpc, lib_dirs, cached_paths, soname_cache, handle_taken, result_cell,
                   scans, discovered, lookups, resolved, interp_calls, rpath_calls>>

\* the check for missing dependencies and the result of the run
Aggregate ==
    /\ pc = "aggregate"
    /\ run_result' = IF Failure(all_dependencies, cli.ignore_missing)
                     THEN "err_missing" ELSE "ok"
    /\ pc' = "done"
    /\ UNCHANGED <<prev, cli, fs, mtime, store, interpreter, root_idx, walk, state, cur,
                   all_dependencies, wpc, lib_dirs, cached_paths, soname_cache,
                   handle_taken, result_cell, scans, discovered, lookups, resolved,
                   interp_calls, rpath_calls>>

Next ==
    \/ Start
    \/ OpenRoot
    \/ WalkFile
    \/ Resolve
    \/ CloseRoot
    \/ Aggregate
    \/ PopulateStep
    \/ PopulateReturn

\* the program run once more with the same command line over the files and
\* state files the ended run left: a new process, whose state is that of main's
\* start; the ended run's log and result are kept in prev
Rerun ==
    /\ pc = "done"
    /\ prev = <<>>
    /\ prev' = <<[resolved |-> resolved, run_result |-> run_result, store |-> store,
                  all_dependencies |-> all_dependencies]>>
    /\ pc' = "start"
    /\ root_idx' = 1
    /\ walk' = <<>>
    /\ state' = EmptyCache
    /\ cur' = NoCur
    /\ all_dependencies' = <<>>
    /\ run_result' = "none"
    /\ wpc' = "unspawned"
    /\ lib_dirs' = <<>>
    /\ cached_paths' = {}
    /\ soname_cache' = [k \in {} |-> <<>>]
    /\ handle_taken' = FALSE
    /\ result_cell' = "unset"
    /\ scans' = <<>>
    /\ discovered' = <<>>
    /\ lookups' = <<>>
    /\ resolved' = <<>>
    /\ interp_calls' = <<>>
    /\ rpath_calls' = <<>>
    /\ UNCHANGED <<cli, fs, mtime, store, interpreter>>

NextRuns ==
    \/ Start
    \/ OpenRoot
    \/ WalkFile
    \/ Resolve
    \/ CloseRoot
    \/ Aggregate
    \/ PopulateStep
    \/ PopulateReturn
    \/ Rerun


-----------------------------------------------------------------------------
(* The files of the initial states *)

NotElf ==
    [kind |-> "file", target |-> <<>>, readable |-> TRUE, magic |-> FALSE, elf |-> FALSE,
     etype |-> "ET_DYN", phdrs |-> {}, arch |-> EM_X86_64, osabi |-> ELFOSABI_SYSV,
     has_runpath |-> FALSE, runpath |-> <<>>, has_rpath |-> FALSE, rpath |-> <<>>,
     needed |-> <<>>, dlopen |-> <<>>]

Directory == [NotElf EXCEPT !.kind = "dir"]

Symlink(to) == [NotElf EXCEPT !.kind = "symlink", !.target = to]

\* a file that starts with the ELF magic and does not parse
BrokenElf == [NotElf EXCEPT !.magic = TRUE]

\* a parsable ELF file; goblin reads the dynamic section through PT_DYNAMIC, so a
\* file with no program header has neither DT_NEEDED nor a runpath: deps are then
\* the soname arrays of its .note.dlopen notes
Elf(etype, phdrs, arch, osabi, deps) ==
    [NotElf EXCEPT !.magic = TRUE, !.elf = TRUE, !.etype = etype, !.phdrs = phdrs,
                   !.arch = arch, !.osabi = osabi,
                   !.needed = IF "PT_DYNAMIC" \in phdrs /\ \A k \in 1..Len(deps) : Len(deps[k]) = 1
                              THEN [k \in 1..Len(deps) |-> deps[k][1]] ELSE <<>>,
                   !.dlopen = IF "PT_DYNAMIC" \in phdrs /\ \A k \in 1..Len(deps) : Len(deps[k]) = 1
                              THEN <<>> ELSE deps]

\* a shared library with a DT_RUNPATH
Lib(arch, osabi, runpath) ==
    [Elf("ET_DYN", {"PT_LOAD", "PT_DYNAMIC"}, arch, osabi, <<>>)
        EXCEPT !.has_runpath = runpath # <<>>, !.runpath = runpath]

\* a relocatable object: no program header, dependencies from .note.dlopen
Object(deps) == Elf("ET_DYN", {}, EM_X86_64, ELFOSABI_SYSV, deps)

PhdrChoices == {{}, {"PT_LOAD", "PT_DYNAMIC"}, {"PT_LOAD", "PT_INTERP", "PT_DYNAMIC"}}

c_foo == <<"libfoo.so.1">>
c_bar == <<"libbar.so.2">>
c_libc == <<"libc.so.6">>
c_missing == <<"libmissing.so.7">>
c_ssl == <<"libssl.so.3">>
c_abs == <<"/", "abs", "libfoo.so.1">>
c_gone == <<"/", "gone", "libc.so.6">>
c_rel == <<"sub", "libssl.so.3">>
c_dotdot == <<"..">>

\* the files every initial file system holds: libc, and a library outside
\* every searched directory
BaseFiles ==
    (LIBC_LIB \o c_libc :> Lib(EM_X86_64, ELFOSABI_SYSV, <<>>))
    @@ (c_abs :> Lib(EM_X86_64, ELFOSABI_SYSV, <<>>))

InitControl ==
    /\ pc = "start"
    /\ root_idx = 1
    /\ walk = <<>>
    /\ state = EmptyCache
    /\ cur = NoCur
    /\ all_dependencies = <<>>
    /\ run_result = "none"
    /\ wpc = "unspawned"
    /\ lib_dirs = <<>>
    /\ cached_paths = {}
    /\ soname_cache = [k \in {} |-> <<>>]
    /\ handle_taken = FALSE
    /\ result_cell = "unset"
    /\ scans = <<>>
    /\ discovered = <<>>
    /\ lookups = <<>>
    /\ resolved = <<>>
    /\ interp_calls = <<>>
    /\ rpath_calls = <<>>
    /\ prev = <<>>

\* the command line of a run over OUT with the libraries of L1 and L2
BaseCli ==
    [paths |-> <<OUT>>, libraries |-> <<L1, L2>>, add_existing |-> TRUE, recurse |-> TRUE,
     keep_libc |-> FALSE, runtime_dependencies |-> <<>>, append_rpaths |-> <<>>,
     ignore_missing |-> <<>>]

-----------------------------------------------------------------------------
(* Initial states for the resolver: one object file whose alternative-sets, *)
(* the keep-libc toggle, the presence of libc in the library cache and the  *)
(* appended directories vary.                                               *)

AltSets ==
    { <<c_foo>>, <<c_bar>>, <<c_libc>>, <<c_missing>>, <<c_abs>>, <<c_gone>>, <<c_dotdot>>,
      <<c_missing, c_foo>>, <<c_libc, c_bar>>, <<c_missing, c_ssl>>, <<c_foo, c_abs>> }

AppendList == <<L1, RT, L2, L3>>

InitResolve ==
    /\ InitControl
    /\ \E deps \in SeqsUpTo(AltSets, MaxDeps), libc_cached \in BOOLEAN :
         fs = BaseFiles
              @@ (L1 \o c_foo :> Lib(EM_X86_64, ELFOSABI_SYSV, <<>>))
              @@ (L2 \o c_foo :> Lib(EM_X86_64, ELFOSABI_LINUX, <<>>))
              @@ (L2 \o c_bar :> Lib(EM_X86_64, ELFOSABI_LINUX, <<>>))
              @@ (IF libc_cached
                  THEN (L1 \o c_libc :> Lib(EM_X86_64, ELFOSABI_SYSV, <<>>))
                  ELSE << >>)
              @@ (OUT \o <<"app">> :> Object(deps))
    /\ mtime = [p \in DOMAIN fs |-> 1]
    /\ store = [r \in {OUT} |-> NewRecord]
    /\ interpreter = [arch |-> EM_X86_64, osabi |-> ELFOSABI_SYSV]
    /\ \E keep_libc \in BOOLEAN, n \in 0..MaxAppend :
         cli = [BaseCli EXCEPT !.add_existing = FALSE, !.keep_libc = keep_libc,
                               !.runtime_dependencies = <<RT>>,
                               !.append_rpaths = SubSeq(AppendList, 1, n)]

SpecResolve == InitResolve /\ [][Next]_vars


-----------------------------------------------------------------------------
(* Vocabulary of the claims *)

\* the spec's OS-ABI compatibility: either tag generic, or both equal
Compatible(a, b) == a = ELFOSABI_SYSV \/ b = ELFOSABI_SYSV \/ a = b

\* positions of the discovered libraries that provide soname for (arch, osabi)
Providers(soname, arch, osabi) ==
    {i \in 1..Len(discovered) :
        /\ discovered[i].soname = soname
        /\ discovered[i].arch = arch
        /\ Compatible(osabi, discovered[i].osabi)}

\* the candidate's base name exists as a regular file in the libc directory
BasenameInLibc(c) == file_name(c) # None /\ is_file(LIBC_LIB \o <<file_name(c)>>)

\* the candidate's path, taken relative to the libc directory, is a regular file
PathInLibc(c) == is_file(join(LIBC_LIB, c))

ExistingAbsolute(c) == is_absolute(c) /\ is_file(c)

\* the files whose resolution ran to its end
Completed == {i \in 1..Len(resolved) : resolved[i].status = "ok"}

\* the directories the cache rule contributed for a file, in resolution order
CacheDirs(outcomes) ==
    Flatten([k \in 1..Len(outcomes) |->
                IF outcomes[k].via = "cache" THEN outcomes[k].dir ELSE <<>>])

-----------------------------------------------------------------------------
(* C1 .. C5: the resolver *)

\* C1: an alternative-set with a candidate whose base name is a regular file of
\* the libc directory is never reported not-found, whatever keep-libc is and
\* whether or not the library cache provides the candidate.
C1_LibcNeverMissing ==
    \A i \in Completed : \A k \in 1..Len(resolved[i].deps) :
        (\E j \in 1..Len(resolved[i].deps[k]) : BasenameInLibc(resolved[i].deps[k][j]))
            => resolved[i].outcomes[k].found

\* C2 as stated: a candidate that is no existing absolute path and whose base
\* name is in the libc directory resolves without contribution when keep-libc
\* is off, and resolves with the cache directory when keep-libc is on and the
\* cache provides it.
C2_Original ==
    \A i \in Completed : \A k \in 1..Len(resolved[i].deps) :
        LET o == resolved[i].outcomes[k]
            elf == Content(resolved[i].file)
        IN  \A j \in 1..Len(o.tried) :
                LET c == o.tried[j].candidate
                    prov == Providers(file_name(c), get_arch(elf), get_osabi(elf))
                IN  (~ExistingAbsolute(c) /\ BasenameInLibc(c)) =>
                        /\ ~cli.keep_libc => (o.found /\ o.idx = j /\ o.dir = <<>>)
                        /\ (cli.keep_libc /\ prov # {}) =>
                              (o.found /\ o.idx = j
                               /\ \E n \in prov : o.dir = <<discovered[n].dir>>)

\* C2 (amended): the same for a candidate whose path, taken relative to the
\* libc directory (not only its base name), is a regular file there.
C2_LibcVersusCache ==
    \A i \in Completed : \A k \in 1..Len(resolved[i].deps) :
        LET o == resolved[i].outcomes[k]
            elf == Content(resolved[i].file)
        IN  \A j \in 1..Len(o.tried) :
                LET c == o.tried[j].candidate
                    prov == Providers(file_name(c), get_arch(elf), get_osabi(elf))
                IN  (~ExistingAbsolute(c) /\ PathInLibc(c)) =>
                        /\ ~cli.keep_libc => (o.found /\ o.idx = j /\ o.dir = <<>>)
                        /\ (cli.keep_libc /\ prov # {}) =>
                              (o.found /\ o.idx = j
                               /\ \E n \in prov : o.dir = <<discovered[n].dir>>
                               /\ o.dir[1] \in Range(resolved[i].rpath))

\* keep-libc is off and a bare libc.so.6 resolved without contribution while
\* the library cache provides libc.so.6 too
C2_Witness ==
    \E i \in Completed : \E k \in 1..Len(resolved[i].deps) :
        LET o == resolved[i].outcomes[k]
        IN  /\ ~cli.keep_libc
            /\ o.found /\ o.tried[o.idx].candidate = c_libc /\ o.dir = <<>>
            /\ Providers("libc.so.6", EM_X86_64, ELFOSABI_SYSV) # {}
            /\ L1 \notin Range(resolved[i].rpath)

\* C3: a candidate that is an absolute path to an existing regular file resolves
\* its set by the absolute-path rule: no cache lookup is made for it and the set
\* contributes no directory, even when the cache provides its base name.
C3_AbsoluteFirst ==
    \A i \in Completed : \A k \in 1..Len(resolved[i].deps) :
        LET o == resolved[i].outcomes[k]
        IN  \A j \in 1..Len(o.tried) :
                ExistingAbsolute(o.tried[j].candidate) =>
                    /\ o.found /\ o.idx = j /\ o.via = "absolute"
                    /\ ~o.tried[j].looked
                    /\ o.dir = <<>>

\* an existing absolute candidate resolved while the cache provides its base name
C3_Witness ==
    \E i \in Completed : \E k \in 1..Len(resolved[i].deps) :
        LET o == resolved[i].outcomes[k]
        IN  /\ o.found /\ o.tried[o.idx].candidate = c_abs
            /\ Providers("libfoo.so.1", EM_X86_64, ELFOSABI_SYSV) # {}
            /\ resolved[i].rpath = cli.append_rpaths

\* C4: the list handed to set_rpath is the accumulated list without the later
\* occurrences of a directory, in the accumulated order.
C4_DedupKeepsOrder ==
    \A n \in 1..Len(rpath_calls) :
        rpath_calls[n].rpath = DedupFirst(rpath_calls[n].accumulated)

\* C5 as stated: for every file that reaches search-path construction the
\* accumulated path is prepend directories, cache directories, append directories.
C5_Original ==
    \A i \in Completed :
        resolved[i].rpath =
            cli.runtime_dependencies \o CacheDirs(resolved[i].outcomes) \o cli.append_rpaths

\* C5 (amended): the prepend directories lead the accumulated path only for a
\* dynamic executable; for any other file it is cache directories, then append
\* directories.
C5_AccumulatedPath ==
    \A i \in Completed :
        resolved[i].rpath =
            (IF "PT_INTERP" \in Content(resolved[i].file).phdrs
             THEN cli.runtime_dependencies ELSE <<>>)
            \o CacheDirs(resolved[i].outcomes) \o cli.append_rpaths

\* a file without interpreter segment, two cache directories and appended
\* directories, with prepend directories given on the command line
C5_Witness ==
    \E i \in Completed :
        /\ cli.runtime_dependencies # <<>>
        /\ "PT_INTERP" \notin Content(resolved[i].file).phdrs
        /\ Len(CacheDirs(resolved[i].outcomes)) = 2
        /\ cli.append_rpaths # <<>>
        /\ resolved[i].rpath = CacheDirs(resolved[i].outcomes) \o cli.append_rpaths


-----------------------------------------------------------------------------
(* Initial states for whole runs.                                          *)
(*  - InitKinds: one root, one file of every kind the early returns of     *)
(*    auto_patchelf_file tell apart, needing one library.                  *)
(*  - InitAggregate: one or two roots with object files whose dependencies *)
(*    are found or missing, and ignore patterns.                           *)
(*  - InitIncremental: two roots, a state record left by an earlier run.  *)
(*  - InitNoPaths: no target path.                                         *)

LibFiles(bar_readable) ==
    (L1 \o c_foo :> Lib(EM_X86_64, ELFOSABI_SYSV, <<>>))
    @@ (L2 \o c_bar :> [Lib(EM_X86_64, ELFOSABI_LINUX, <<>>) EXCEPT !.readable = bar_readable])

TargetKinds ==
    {NotElf, BrokenElf, Symlink(L1 \o c_foo)}
    \cup {Elf(etype, phdrs, arch, osabi, <<dep>>) :
            etype \in ElfTypes, phdrs \in PhdrChoices, arch \in Archs, osabi \in OsAbis,
            dep \in {<<c_foo>>, <<c_missing>>}}

InitKinds ==
    /\ InitControl
    /\ \E app \in TargetKinds :
         fs = BaseFiles @@ LibFiles(TRUE) @@ (OUT \o <<"app">> :> app)
    /\ mtime = [p \in DOMAIN fs |-> 1]
    /\ store = [r \in {OUT} |-> NewRecord]
    /\ \E osabi \in {ELFOSABI_SYSV, ELFOSABI_LINUX} :
         interpreter = [arch |-> EM_X86_64, osabi |-> osabi]
    /\ cli = [BaseCli EXCEPT !.append_rpaths = <<RT>>]

AggregateSets == {<<c_foo>>, <<c_missing>>, <<c_ssl>>, <<c_rel>>, <<c_dotdot>>, <<c_missing, c_ssl>>}

IgnoreChoices == {<<>>, <<"libssl*">>, <<"[", "libmissing.so.7">>, <<"sub*">>, <<"*">>}

InitAggregate ==
    /\ InitControl
    /\ \E paths \in {<<OUT>>, <<OUT, OUT2>>}, ignore_missing \in IgnoreChoices :
         cli = [BaseCli EXCEPT !.paths = paths, !.ignore_missing = ignore_missing]
    /\ \E deps \in SeqsUpTo(AggregateSets, MaxDeps),
          dep2 \in (IF OUT2 \in Range(cli.paths) THEN {<<c_foo>>, <<c_missing>>, <<c_rel>>}
                    ELSE {<<>>}) :
         fs = BaseFiles @@ LibFiles(TRUE)
              @@ (OUT \o <<"app">> :> Object(deps))
              @@ (OUT \o <<"notes.txt">> :> NotElf)
              @@ (OUT \o <<"sub">> :> Directory)
              @@ (IF dep2 = <<>> THEN << >> ELSE (OUT2 \o <<"tool">> :> Object(<<dep2>>)))
    /\ mtime = [p \in DOMAIN fs |-> 1]
    /\ store = [r \in Range(cli.paths) |-> NewRecord]
    /\ interpreter = [arch |-> EM_X86_64, osabi |-> ELFOSABI_SYSV]

\* two roots; the record of the first may hold its file already, with the time
\* the file still has or an older one, and one library may be unreadable
InitIncremental ==
    /\ InitControl
    /\ cli = [BaseCli EXCEPT !.paths = <<OUT, OUT2>>]
    /\ \E dep \in {<<c_foo>>, <<c_missing>>}, bar_readable \in BOOLEAN :
         fs = BaseFiles @@ LibFiles(bar_readable)
              @@ (OUT \o <<"app">> :> Object(<<dep>>))
              @@ (OUT2 \o <<"tool">> :> Object(<<dep>>))
    /\ \E t \in 1..(MaxMtime - 1) : mtime = [p \in DOMAIN fs |-> t]
    /\ \E known \in SUBSET {<<"app">>} :
         store = [r \in {OUT, OUT2} |->
                    IF r = OUT /\ known # {}
                    THEN serialize([p \in known |-> 1]) ELSE NewRecord]
    /\ interpreter = [arch |-> EM_X86_64, osabi |-> ELFOSABI_SYSV]

InitNoPaths ==
    /\ InitControl
    /\ fs = BaseFiles @@ LibFiles(TRUE)
    /\ mtime = [p \in DOMAIN fs |-> 1]
    /\ store = [r \in {OUT} |-> NewRecord]
    /\ interpreter = [arch |-> EM_X86_64, osabi |-> ELFOSABI_SYSV]
    /\ cli = [BaseCli EXCEPT !.paths = <<>>]

\* the state records a root can hold that an earlier run of this version did
\* not leave complete: too short for the version tag, written with another
\* version tag, or with a mapping that does not decode
DamagedRecords ==
    {[tag_read |-> FALSE, version |-> 0, decodes |-> FALSE, cache |-> EmptyCache]}
    \cup {[tag_read |-> TRUE, version |-> v, decodes |-> d, cache |-> (<<"app">> :> 1)] :
            v \in {0, VERSION, VERSION + 1}, d \in BOOLEAN}

\* one root whose state record may be damaged; a sound record would have the
\* file of the root up to date
InitDamaged ==
    /\ InitControl
    /\ cli = BaseCli
    /\ \E dep \in {<<c_foo>>, <<c_missing>>} :
         fs = BaseFiles @@ LibFiles(TRUE)
              @@ (OUT \o <<"app">> :> Object(<<dep>>))
              @@ (OUT \o <<"notes.txt">> :> NotElf)
    /\ mtime = [p \in DOMAIN fs |-> 1]
    /\ \E rec \in DamagedRecords : store = [r \in {OUT} |-> rec]
    /\ interpreter = [arch |-> EM_X86_64, osabi |-> ELFOSABI_SYSV]

Init == InitKinds \/ InitAggregate \/ InitIncremental \/ InitNoPaths \/ InitDamaged

Spec == Init /\ [][Next]_vars

\* a run and the run that follows it
TwoRuns == Init /\ [][NextRuns]_vars


-----------------------------------------------------------------------------
(* C6 .. C8: whole runs *)

\* the names under which the resolver reported alternative-sets not-found, over
\* all files of all roots
MissingOf(i) ==
    {dep_name(resolved[i].deps[k]) :
        k \in {k \in 1..Len(resolved[i].deps) : ~resolved[i].outcomes[k].found}}

AllMissing == UNION {MissingOf(i) : i \in Completed}

RunEnded == pc = "done" /\ cli.paths # <<>>

\* C6 as stated: the run fails exactly when some not-found dependency has a
\* reported name that matches none of the ignore patterns.
C6_Original ==
    RunEnded =>
        (run_result = "err_missing"
            <=> \E n \in AllMissing :
                  \A j \in 1..Len(cli.ignore_missing) :
                      ~PatternMatches(cli.ignore_missing[j], display(n)))

\* C6 (amended): the run fails exactly when some not-found dependency has a
\* reported name whose last path component matches none of the ignore patterns,
\* or has no last component; otherwise it succeeds.
C6_FailsIffUnmatched ==
    RunEnded =>
        /\ run_result \in {"ok", "err_missing"}
        /\ run_result = "err_missing"
            <=> \E n \in AllMissing :
                  \/ file_name(n) = None
                  \/ \A j \in 1..Len(cli.ignore_missing) :
                        ~PatternMatches(cli.ignore_missing[j], file_name(n))

\* a run over two roots that succeeds although libssl.so.3 was not found,
\* because the pattern libssl* matches it
C6_Witness ==
    /\ RunEnded /\ Len(cli.paths) = 2 /\ Cardinality(Completed) = 2
    /\ run_result = "ok"
    /\ cli.ignore_missing = <<"libssl*">>
    /\ c_ssl \in AllMissing

\* the walked files that are dynamically linked, have loadable segments, match
\* the interpreter and need exactly the soname c
NeedsOnly(c) ==
    {p \in DOMAIN fs :
        /\ starts_with(p, OUT) /\ fs[p].kind = "file" /\ fs[p].elf
        /\ {"PT_LOAD", "PT_DYNAMIC"} \subseteq fs[p].phdrs
        /\ ~(fs[p].etype = "ET_EXEC" /\ "PT_INTERP" \notin fs[p].phdrs)
        /\ fs[p].arch = interpreter.arch
        /\ Compatible(interpreter.osabi, fs[p].osabi)
        /\ fs[p].needed = <<c>> /\ fs[p].dlopen = <<>>}

\* C7: end to end, a dynamically linked target needing one soname that only an
\* explicit library directory provides is recorded found and gets a set_rpath
\* with that directory; one needing a soname nobody provides fails the run.
C7_EndToEnd ==
    (/\ RunEnded
     /\ wpc = "ok"
     /\ \A n \in 1..Len(interp_calls) : interp_calls[n].ok) =>
        /\ \A p \in NeedsOnly(c_foo) :
              /\ \E n \in 1..Len(all_dependencies) :
                    all_dependencies[n] = [file |-> p, name |-> c_foo, found |-> TRUE]
              /\ \E n \in 1..Len(rpath_calls) :
                    rpath_calls[n].file = p /\ L1 \in Range(rpath_calls[n].rpath)
        /\ (NeedsOnly(c_missing) # {} /\ cli.ignore_missing = <<>>) =>
              /\ run_result = "err_missing"
              /\ \E n \in 1..Len(all_dependencies) :
                    all_dependencies[n].name = c_missing /\ ~all_dependencies[n].found

\* C8: a file handed to the resolver is skipped exactly when it does not parse,
\* is a static executable, has no program header, or does not match the
\* interpreter's architecture or OS-ABI.
C8_SkipExactly ==
    \A i \in 1..Len(resolved) :
        LET f == Content(resolved[i].file)
        IN  resolved[i].status = "skipped"
              <=> \/ ~f.elf
                  \/ f.etype = "ET_EXEC" /\ "PT_INTERP" \notin f.phdrs
                  \/ f.phdrs = {}
                  \/ f.arch # interpreter.arch
                  \/ ~Compatible(interpreter.osabi, f.osabi)


-----------------------------------------------------------------------------
(* Initial states for the library cache.                                   *)
(*  - InitGraph: libraries in the target root and in three directories     *)
(*    whose runpaths point at each other, seeds that repeat a directory,   *)
(*    and one library that may be unreadable.                              *)
(*  - InitProviders: up to three providers of one soname that differ in    *)
(*    architecture and OS-ABI, looked up for a file of each OS-ABI; the    *)
(*    one of the target root is a library of its own or a symbolic link    *)
(*    to the one of the second directory; the target root may also hold a  *)
(*    library in a subdirectory and a symbolic link to it.                 *)

EmptyEntry == <<>>
OriginEntry == <<"$ORIGIN", "..", "lib">>

InitGraph ==
    /\ InitControl
    /\ \E rp_foo \in SeqsUpTo({L2, L3, EmptyEntry, OriginEntry}, MaxRunpath),
          rp_bar \in {<<>>, <<L1>>, <<L3, L1>>},
          rp_ssl \in {<<>>, <<L1>>},
          rp_own \in {<<>>, <<L1>>},
          bar_readable \in BOOLEAN :
         fs = BaseFiles
              @@ (L1 \o c_foo :> Lib(EM_X86_64, ELFOSABI_SYSV, rp_foo))
              @@ (L2 \o c_bar :> [Lib(EM_X86_64, ELFOSABI_SYSV, rp_bar)
                                     EXCEPT !.readable = bar_readable])
              @@ (L3 \o c_ssl :> Lib(EM_X86_64, ELFOSABI_SYSV, rp_ssl))
              @@ (OUT \o <<"libown.so">> :> Lib(EM_X86_64, ELFOSABI_SYSV, rp_own))
              @@ (OUT \o <<"app">> :> Object(<<<<c_ssl>>>>))
    /\ mtime = [p \in DOMAIN fs |-> 1]
    /\ store = [r \in {OUT} |-> NewRecord]
    /\ interpreter = [arch |-> EM_X86_64, osabi |-> ELFOSABI_SYSV]
    /\ \E libraries \in {<<L1>>, <<L1, L2>>, <<L2, L1, L2>>}, add_existing \in BOOLEAN :
         cli = [BaseCli EXCEPT !.libraries = libraries, !.add_existing = add_existing]

InitProviders ==
    /\ InitControl
    /\ \E a1 \in Archs, o1 \in OsAbis, a2 \in Archs, o2 \in OsAbis,
          own \in SUBSET OsAbis, linked \in BOOLEAN, nested \in BOOLEAN,
          wanted \in OsAbis :
         /\ Cardinality(own) <= 1
         /\ linked => own = {}
         /\ nested => own = {} /\ ~linked
         /\ fs = BaseFiles
                 @@ (L1 \o c_foo :> Lib(a1, o1, <<>>))
                 @@ (L2 \o c_foo :> Lib(a2, o2, <<>>))
                 @@ [p \in {OUT \o c_foo : o \in own} |->
                        Lib(EM_X86_64, CHOOSE o \in own : TRUE, <<>>)]
                 @@ [p \in {OUT \o c_foo : l \in {linked} \ {FALSE}} |->
                        Symlink(L2 \o c_foo)]
                 @@ (IF nested
                     THEN (OUT \o <<"sub">> :> Directory)
                          @@ (OUT \o <<"sub", "libown.so">> :>
                                 Lib(EM_X86_64, ELFOSABI_SYSV, <<>>))
                          @@ (OUT \o <<"libown.so">> :>
                                 Symlink(OUT \o <<"sub", "libown.so">>))
                     ELSE << >>)
                 @@ (OUT \o <<"app">> :>
                        Elf("ET_DYN", {}, EM_X86_64, wanted, <<<<c_foo>>, <<c_missing, c_foo>>>>))
    /\ mtime = [p \in DOMAIN fs |-> 1]
    /\ store = [r \in {OUT} |-> NewRecord]
    /\ interpreter = [arch |-> EM_X86_64, osabi |-> ELFOSABI_SYSV]
    /\ \E libraries \in {<<L1, L2>>, <<L2, L1>>}, add_existing \in BOOLEAN :
         cli = [BaseCli EXCEPT !.libraries = libraries, !.add_existing = add_existing]

InitCache == InitGraph \/ InitProviders

\* the worker is a thread of its own: once spawned it runs until it returns
FairCache ==
    InitCache /\ [][Next]_vars /\ WF_vars(PopulateStep) /\ WF_vars(PopulateReturn)

-----------------------------------------------------------------------------
(* C9, C10: the library cache *)

ScannedOnce == \A i, j \in 1..Len(scans) : scans[i] = scans[j] => i = j

\* C9: cache population ends for every set of seed directories and every
\* runpath graph, cycles included, and globs no directory path twice over both
\* seeding phases.
C9_PopulationTerminates ==
    /\ []ScannedOnce
    /\ (wpc \in {"phase1", "phase2"}) ~> (wpc \in {"ok", "err"})

\* population ended over both phases with the runpaths of L1 and L2 pointing at
\* each other, a directory seeded twice, and L1 reached from the target root too
C9_Witness ==
    /\ wpc = "ok"
    /\ cli.add_existing
    /\ L2 \in Range(fs[L1 \o c_foo].runpath)
    /\ L1 \in Range(fs[L2 \o c_bar].runpath)
    /\ L1 \in Range(fs[OUT \o <<"libown.so">>].runpath)
    /\ cli.libraries = <<L2, L1, L2>>
    /\ ScannedOnce
    /\ {OUT, L1, L2} \subseteq Range(scans)

\* C10: find_dependency returns none when no library was recorded for (soname,
\* arch) with a compatible OS-ABI, and otherwise the directory of the earliest
\* discovered such library.
C10_EarliestCompatible ==
    \A n \in 1..Len(lookups) :
        LET prov == Providers(lookups[n].soname, lookups[n].arch, lookups[n].osabi)
        IN  IF prov = {} THEN lookups[n].hit = <<>>
            ELSE \E m \in prov :
                    /\ \A o \in prov : m <= o
                    /\ lookups[n].hit = <<discovered[m].dir>>

\* a lookup answered with the earliest compatible one while an earlier discovered
\* library of the same name is of another architecture or OS-ABI, and a later
\* one is compatible too
C10_Witness ==
    \E n \in 1..Len(lookups) :
        LET prov == Providers(lookups[n].soname, lookups[n].arch, lookups[n].osabi)
        IN  /\ Cardinality(prov) >= 2
            /\ \E m \in prov :
                  /\ lookups[n].hit = <<discovered[m].dir>>
                  /\ \E e \in (1..(m - 1)) \ prov :
                        discovered[e].soname = lookups[n].soname
                  /\ \E o \in prov : o > m /\ discovered[o].dir # discovered[m].dir

-----------------------------------------------------------------------------
(* C11: OS-ABI compatibility *)

\* C11: osabi_are_compatible is reflexive and symmetric, true whenever either
\* tag is the generic System-V tag, and false for two different tags none of
\* which is the generic one.
C11_OsabiRelation ==
    /\ \A a, b \in OsAbis :
          /\ osabi_are_compatible(a, a)
          /\ osabi_are_compatible(a, b) = osabi_are_compatible(b, a)
          /\ (a = ELFOSABI_SYSV \/ b = ELFOSABI_SYSV) => osabi_are_compatible(a, b)
          /\ (a # b /\ a # ELFOSABI_SYSV /\ b # ELFOSABI_SYSV) => ~osabi_are_compatible(a, b)
    \* and the lookups of the run were answered by it
    /\ \A n \in 1..Len(lookups) :
          lookups[n].hit # <<>> =>
              \E e \in 1..Len(discovered) :
                  /\ discovered[e].soname = lookups[n].soname
                  /\ discovered[e].arch = lookups[n].arch
                  /\ discovered[e].dir = lookups[n].hit[1]
                  /\ osabi_are_compatible(discovered[e].osabi, lookups[n].osabi)

\* a lookup for a non-generic tag was answered from a library with the generic
\* tag, after a library of the same name with another non-generic tag was
\* passed over
C11_Witness ==
    \E n \in 1..Len(lookups) : \E e, g \in 1..Len(discovered) :
        /\ lookups[n].osabi = ELFOSABI_LINUX
        /\ discovered[e].soname = lookups[n].soname /\ discovered[e].arch = lookups[n].arch
        /\ discovered[g].soname = lookups[n].soname /\ discovered[g].arch = lookups[n].arch
        /\ e < g
        /\ discovered[e].osabi = ELFOSABI_FREEBSD
        /\ discovered[g].osabi = ELFOSABI_SYSV
        /\ lookups[n].hit = <<discovered[g].dir>>
        /\ discovered[e].dir # discovered[g].dir

-----------------------------------------------------------------------------
(* C12: the state of a root through update, serialize and deserialize *)

\* the root-relative paths and the times the queries are made with
QueryPaths == {<<"app">>, <<"tool">>, <<"notes.txt">>, <<"sub", "libown.so">>}
QueryTimes == 0..(MaxMtime + 1)

\* the file whose resolver call ends with this step
FileOfStep == IF pc = "await" THEN cur.file ELSE Head(walk)

\* a step of the walk that ran the and_then closure on the file's result
UpdateStep ==
    /\ pc \in {"walk", "await"} /\ pc' = "walk"
    /\ Len(resolved') = Len(resolved) + 1
    /\ resolved'[Len(resolved')].status \in {"ok", "skipped"}

\* the step that serializes the state of the root
SerializeStep == pc = "walk" /\ pc' \in {"root", "aggregate"}

-----------------------------------------------------------------------------
(* C13 .. C14: the shared handle of the cache worker *)

\* the resolver calls that went through get_result
Asked == {i \in 1..Len(resolved) : resolved[i].status \in {"ok", "err_cache"}}

\* C13: the worker is joined at most once, by the first get_result, which
\* returns only after the worker has ended; the outcome stored then is the one
\* every later call gets; the cache is populated once and does not change after
\* the join, so every lookup was answered from the complete cache.
C13_JoinedOnce ==
    /\ [](/\ handle_taken <=> result_cell # "unset"
          /\ result_cell # "unset" => (result_cell \in {"ok", "err"} /\ result_cell = wpc)
          /\ Asked # {} => handle_taken
          /\ \A i \in Asked : resolved[i].status = "ok" <=> result_cell = "ok"
          /\ lookups # <<>> => (wpc = "ok" /\ lib_dirs = <<>>)
          /\ \A n \in 1..Len(lookups) :
                lookups[n].hit = find_dependency(soname_cache, lookups[n].soname,
                                                 lookups[n].arch, lookups[n].osabi)
          /\ ScannedOnce)
    /\ [][/\ result_cell # "unset" => result_cell' = result_cell
          /\ handle_taken => handle_taken'
          /\ wpc \in {"ok", "err"} =>
                UNCHANGED <<wpc, lib_dirs, cached_paths, soname_cache, scans, discovered>>
         ]_vars

\* two files of two roots went through get_result and resolved against the one
\* populated cache
C13_Witness ==
    /\ result_cell = "ok"
    /\ \E i, j \in Asked : i < j /\ resolved[i].file # resolved[j].file
    /\ Len(lookups) >= 2
    /\ Len(scans) >= 3

\* the root a walked file belongs to, and its path relative to that root
RootOf(p) == CHOOSE r \in Range(cli.paths) : starts_with(p, r)
RelPath(p) == strip_prefix(p, RootOf(p))

\* the mapping that holds the entries of p's root now: the state of the open
\* root, or what a deserialize of the closed root's record gives
RecordedNow(p) ==
    IF pc \in {"walk", "await"} /\ Root = RootOf(p) THEN state
    ELSE deserialize_cache(store[RootOf(p)])

\* C14: once the worker has failed, every file that reaches dependency
\* resolution ends with a resolver error, the first and the later ones alike;
\* none of them is recorded up to date or contributes a dependency outcome or
\* a rewrite; and the run goes on to the end of every root and completes.
C14_WorkerFailure ==
    wpc = "err" =>
        /\ \A i \in Asked :
              /\ resolved[i].status = "err_cache"
              /\ ~up_to_date(RecordedNow(resolved[i].file), RelPath(resolved[i].file),
                             mtime[resolved[i].file])
        /\ all_dependencies = <<>> /\ lookups = <<>> /\ rpath_calls = <<>>
        /\ pc = "done" =>
              /\ run_result = "ok"
              /\ root_idx = Len(cli.paths)
              /\ \A r \in Range(cli.paths) : store[r] = serialize(deserialize_cache(store[r]))
              /\ \A p \in DOMAIN fs :
                    (/\ \E r \in Range(cli.paths) : starts_with(p, r)
                     /\ fs[p].kind = "file" /\ fs[p].magic
                     /\ ~up_to_date(RecordedNow(p), RelPath(p), mtime[p]))
                    => \E i \in Asked : resolved[i].file = p

\* the worker failed and the files of both roots, one after the other, ended
\* with the error; the run completed
C14_Witness ==
    /\ wpc = "err" /\ pc = "done"
    /\ \E i, j \in Asked :
          /\ i < j
          /\ resolved[i].file = OUT \o <<"app">> /\ resolved[i].status = "err_cache"
          /\ resolved[j].file = OUT2 \o <<"tool">> /\ resolved[j].status = "err_cache"

-----------------------------------------------------------------------------
(* C15 .. C16: the results of the resolver and the state of the root *)

\* a step that ends the resolver call of one file
ResolverReturns ==
    /\ pc \in {"walk", "await"} /\ pc' = "walk"
    /\ Len(resolved') = Len(resolved) + 1

Returned == resolved'[Len(resolved')]

\* the resolver calls that ended with an error
Failed == {i \in 1..Len(resolved) : resolved[i].status \notin {"ok", "skipped"}}

\* C15: the state of the root changes during its walk only where a resolver
\* call returns success, and then only in the entry of that file; a call that
\* returns an error leaves the state and the accumulated outcomes as they were,
\* so the file is still not up to date when the run ends.
C15_UpdateOnlyOnSuccess ==
    /\ [][/\ (pc \in {"walk", "await"} /\ pc' \in {"walk", "await"} /\ state' # state) =>
                /\ ResolverReturns
                /\ Returned.status \in {"ok", "skipped"}
                /\ \A q \in (DOMAIN state \cup DOMAIN state') \ {strip_prefix(Returned.file, Root)} :
                      q \in DOMAIN state /\ q \in DOMAIN state' /\ state'[q] = state[q]
          /\ (ResolverReturns /\ Returned.status \notin {"ok", "skipped"}) =>
                /\ state' = state
                /\ all_dependencies' = all_dependencies
         ]_vars
    /\ [](\A i \in Failed :
            /\ ~up_to_date(RecordedNow(resolved[i].file), RelPath(resolved[i].file),
                           mtime[resolved[i].file])
            /\ \A n \in 1..Len(all_dependencies) :
                  all_dependencies[n].file # resolved[i].file)

\* the resolver failed for a file whose root had an older entry for it: the
\* run ended with that entry as it was
C15_Witness ==
    /\ pc = "done"
    /\ \E i \in Failed :
          /\ resolved[i].file = OUT \o <<"app">>
          /\ mtime[OUT \o <<"app">>] = 2
          /\ deserialize_cache(store[OUT]) = (<<"app">> :> 1)

\* C16: a set_rpath that failed is no resolver error: the call of its file
\* returned success with the file's dependency outcomes, the outcomes were
\* accumulated and the entry of the file was written with its current time.
C16_RpathFailureNotFatal ==
    \A n \in 1..Len(rpath_calls) :
        ~rpath_calls[n].ok =>
            \E i \in Completed :
                LET file == rpath_calls[n].file
                    outs == Dependencies(file, resolved[i].deps, resolved[i].outcomes)
                IN  /\ resolved[i].file = file
                    /\ \A k \in 1..Len(outs) :
                          \E m \in 1..Len(all_dependencies) : all_dependencies[m] = outs[k]
                    /\ up_to_date(RecordedNow(file), RelPath(file), mtime[file])

\* the run ended after a set_rpath failed for a file with one dependency found
\* in the cache and one missing: both outcomes were accumulated, the run fails
\* for the missing one, and the file is recorded
C16_Witness ==
    /\ pc = "done" /\ run_result = "err_missing"
    /\ \E n \in 1..Len(rpath_calls) :
          /\ ~rpath_calls[n].ok
          /\ rpath_calls[n].file = OUT \o <<"app">>
          /\ \E m \in 1..Len(all_dependencies) :
                all_dependencies[m] = [file |-> OUT \o <<"app">>, name |-> c_foo, found |-> TRUE]
          /\ \E m \in 1..Len(all_dependencies) :
                all_dependencies[m] = [file |-> OUT \o <<"app">>, name |-> c_missing, found |-> FALSE]
    /\ up_to_date(deserialize_cache(store[OUT]), <<"app">>, mtime[OUT \o <<"app">>])

-----------------------------------------------------------------------------
(* C17 .. C18: the rewrites *)

\* the dynamic executables that were handed to the resolver and that none of
\* the skip conditions (unparsable, static, no segment, other architecture or
\* OS-ABI) applies to
ProcessedDynamicExecutables ==
    {p \in {resolved[i].file : i \in 1..Len(resolved)} :
        /\ Content(p).elf
        /\ "PT_INTERP" \in Content(p).phdrs
        /\ Content(p).arch = interpreter.arch
        /\ Compatible(interpreter.osabi, Content(p).osabi)}

\* C17: set_interpreter is attempted for every processed dynamic executable
\* that is not to be skipped, whatever becomes of its dependency resolution,
\* and for no file without interpreter segment; where it fails the file ends
\* with an error, without cache access or set_rpath.
C17_InterpreterAttempted ==
    /\ \A p \in ProcessedDynamicExecutables :
          \E n \in 1..Len(interp_calls) : interp_calls[n].file = p
    /\ \A n \in 1..Len(interp_calls) :
          /\ "PT_INTERP" \in Content(interp_calls[n].file).phdrs
          /\ ~interp_calls[n].ok =>
                /\ \E i \in 1..Len(resolved) :
                      /\ resolved[i].file = interp_calls[n].file
                      /\ resolved[i].status = "err_interpreter"
                /\ \A m \in 1..Len(rpath_calls) : rpath_calls[m].file # interp_calls[n].file

\* C18: set_rpath is invoked for a file exactly when its resolution ran to the
\* end and its search path is not empty: once, with a non-empty list, and never
\* for a skipped file or a file whose resolver call ended in an error.
C18_RpathOnlyNonEmpty ==
    /\ \A i \in 1..Len(resolved) :
          (\E n \in 1..Len(rpath_calls) : rpath_calls[n].file = resolved[i].file)
              <=> (resolved[i].status = "ok" /\ resolved[i].rpath # <<>>)
    /\ \A n \in 1..Len(rpath_calls) :
          /\ rpath_calls[n].rpath # <<>>
          /\ Range(rpath_calls[n].rpath) = Range(rpath_calls[n].accumulated)
          /\ \E i \in Completed : resolved[i].file = rpath_calls[n].file
          /\ \A m \in 1..Len(rpath_calls) : rpath_calls[m].file = rpath_calls[n].file => m = n

\* a run over two roots ended: the file of the first resolved with an empty
\* search path and got no set_rpath, the file of the second got one
C18_Witness ==
    /\ pc = "done"
    /\ \E i, j \in Completed :
          /\ resolved[i].file = OUT \o <<"app">> /\ resolved[i].rpath = <<>>
          /\ resolved[j].file = OUT2 \o <<"tool">> /\ resolved[j].rpath # <<>>
    /\ Len(rpath_calls) = 1 /\ rpath_calls[1].file = OUT2 \o <<"tool">>

-----------------------------------------------------------------------------
(* C19: a run without target paths *)

\* C19: without target paths the run fails at once: the cache worker is never
\* spawned, no directory is scanned, no state record is read or written, no
\* file is handed to the resolver and no rewrite is invoked; and no other run
\* ends with that failure.
C19_NoPathsFailsAtOnce ==
    /\ cli.paths = <<>> =>
          /\ pc \in {"start", "done"}
          /\ pc = "start" => run_result = "none"
          /\ pc = "done" => run_result = "err_no_paths"
          /\ wpc = "unspawned" /\ lib_dirs = <<>> /\ scans = <<>> /\ discovered = <<>>
          /\ ~handle_taken /\ result_cell = "unset"
          /\ state = EmptyCache
          /\ \A r \in DOMAIN store : store[r] = NewRecord
          /\ resolved = <<>> /\ interp_calls = <<>> /\ rpath_calls = <<>>
    /\ run_result = "err_no_paths" => cli.paths = <<>>

\* the run without target paths has ended
C19_Witness ==
    /\ cli.paths = <<>> /\ pc = "done" /\ run_result = "err_no_paths"
    /\ cli.libraries # <<>> /\ cli.add_existing

-----------------------------------------------------------------------------
(* C20: a damaged state record *)

\* the record does not hold a mapping of this version
Damaged(rec) == ~rec.tag_read \/ rec.version # VERSION \/ ~rec.decodes

\* the files of the open root that the walk hands to the resolver unless they
\* are up to date
ElfFilesOfRoot ==
    {p \in DOMAIN fs :
        /\ Len(p) > Len(Root) /\ starts_with(p, Root)
        /\ (cli.recurse \/ Len(p) = Len(Root) + 1)
        /\ ~is_symlink(p) /\ is_file(p) /\ HasElfMagic(p)}

\* C20: a record whose version tag cannot be read or differs, or whose mapping
\* does not decode, does not fail the run: the root starts with an empty
\* mapping, nothing is up to date, and every ELF file of the root has been
\* handed to the resolver when the root is closed with a sound record.
C20_DamagedRecordDiscarded ==
    [][/\ (pc = "root" /\ pc' # "root" /\ Damaged(store[Root])) =>
            /\ pc' = "walk" /\ run_result' = run_result
            /\ state' = EmptyCache
            /\ \A q \in QueryPaths, t \in QueryTimes : ~up_to_date(state', q, t)
       /\ (SerializeStep /\ Damaged(store[Root])) =>
            /\ \A p \in ElfFilesOfRoot : \E i \in 1..Len(resolved) : resolved[i].file = p
            /\ ~Damaged(store'[Root])
            /\ DOMAIN deserialize_cache(store'[Root]) \subseteq
                   {strip_prefix(resolved[i].file, Root) : i \in 1..Len(resolved)}
      ]_vars

\* the record of the root was written with another version tag and had the
\* file at the time it still has: the file was resolved again
C20_Witness ==
    /\ pc = "walk" /\ walk = <<>>
    /\ store[OUT].tag_read /\ store[OUT].version = VERSION + 1 /\ store[OUT].decodes
    /\ store[OUT].cache = (<<"app">> :> 1)
    /\ \E i \in Completed : resolved[i].file = OUT \o <<"app">>
    /\ state = (<<"app">> :> mtime[OUT \o <<"app">>])

-----------------------------------------------------------------------------
(* C21: the walk after a resolver error *)

\* the files of all roots that the walk hands to the resolver unless they are
\* up to date
ElfFilesOfRun ==
    {p \in DOMAIN fs :
        /\ \E r \in Range(cli.paths) :
              /\ Len(p) > Len(r) /\ starts_with(p, r)
              /\ (cli.recurse \/ Len(p) = Len(r) + 1)
        /\ ~is_symlink(p) /\ is_file(p) /\ HasElfMagic(p)}

\* a step in which the resolver call of a file ends with an error
ResolverFails ==
    /\ Len(resolved') = Len(resolved) + 1
    /\ resolved'[Len(resolved')].status \notin {"ok", "skipped"}

\* C21: a resolver error ends the processing of its file only: the walk stays
\* in the same root with the files still to visit, the outcomes accumulated so
\* far are kept, and the run goes on to its end, where every root has its state
\* persisted, every ELF file was handed to the resolver or is up to date, and
\* the run fails for unmatched missing dependencies only.
C21_WalkContinues ==
    /\ [][/\ ResolverFails =>
                /\ pc' = "walk"
                /\ (walk' = walk \/ (walk # <<>> /\ walk' = Tail(walk)))
                /\ root_idx' = root_idx
                /\ run_result' = run_result
                /\ all_dependencies' = all_dependencies
          /\ Len(all_dependencies') >= Len(all_dependencies)
          /\ SubSeq(all_dependencies', 1, Len(all_dependencies)) = all_dependencies
         ]_vars
    /\ []((pc = "done" /\ cli.paths # <<>>) =>
            /\ run_result = (IF Failure(all_dependencies, cli.ignore_missing)
                             THEN "err_missing" ELSE "ok")
            /\ \A r \in Range(cli.paths) : ~Damaged(store[r])
            /\ \A p \in ElfFilesOfRun :
                  \/ \E i \in 1..Len(resolved) : resolved[i].file = p
                  \/ up_to_date(RecordedNow(p), RelPath(p), mtime[p]))

\* the resolver failed for the file of the first root; the file of the second
\* root was handed to the resolver after it, both roots were persisted and the
\* run succeeded
C21_Witness ==
    /\ pc = "done" /\ run_result = "ok"
    /\ \E i \in Failed : \E j \in 1..Len(resolved) :
          /\ i < j
          /\ RootOf(resolved[i].file) = OUT
          /\ RootOf(resolved[j].file) = OUT2
    /\ ~Damaged(store[OUT]) /\ ~Damaged(store[OUT2])


-----------------------------------------------------------------------------
(* C22: seeding priority *)

\* the files below dirs that provide soname for (arch, osabi): the files the
\* scan of those directories records under that name
ProvidedIn(dirs, recursive, soname, arch, osabi) ==
    {p \in UNION {Range(glob(dirs[i], "*.so*", recursive)) : i \in 1..Len(dirs)} :
        /\ is_file(p) /\ Readable(p) /\ ElfParses(Content(p))
        /\ file_name(p) = soname
        /\ get_arch(Content(p)) = arch
        /\ Compatible(osabi, get_osabi(Content(p)))}

\* the runpath directories the libraries of the file system name
RunpathDirs ==
    UNION {Range(QueuedRpath(Content(p))) :
              p \in {q \in DOMAIN fs : is_file(q) /\ ElfParses(Content(q))}}

\* with the toggle off a target root is scanned only as a library directory or
\* as a runpath entry
RootsNotSeeded ==
    ~cli.add_existing =>
        \A i \in 1..Len(cli.paths) :
            cli.paths[i] \in Range(scans) =>
                cli.paths[i] \in Range(cli.libraries) \cup RunpathDirs

\* C22 as stated: with the toggle on, a lookup of a soname provided both under a
\* target root and in an explicit library directory is answered with the
\* directory of the file under the target root; with the toggle off the target
\* roots are not seeded.
C22_TargetRootDirectory ==
    /\ cli.add_existing =>
          \A n \in 1..Len(lookups) :
              LET under == ProvidedIn(cli.paths, cli.recurse, lookups[n].soname,
                                      lookups[n].arch, lookups[n].osabi)
                  explicit == ProvidedIn(cli.libraries, FALSE, lookups[n].soname,
                                         lookups[n].arch, lookups[n].osabi)
              IN  (under # {} /\ explicit # {}) =>
                      /\ lookups[n].hit # <<>>
                      /\ lookups[n].hit[1] \in {parent(p) : p \in under}
    /\ RootsNotSeeded

\* C22: with the toggle on, a lookup of a soname provided both under a target
\* root and in an explicit library directory is answered with the directory
\* recorded for the file under the target root: the parent of its real path when
\* that keeps the file name, else its own parent; with the toggle off the target
\* roots are not seeded.
C22_TargetRootRecorded ==
    /\ cli.add_existing =>
          \A n \in 1..Len(lookups) :
              LET under == ProvidedIn(cli.paths, cli.recurse, lookups[n].soname,
                                      lookups[n].arch, lookups[n].osabi)
                  explicit == ProvidedIn(cli.libraries, FALSE, lookups[n].soname,
                                         lookups[n].arch, lookups[n].osabi)
              IN  (under # {} /\ explicit # {}) =>
                      /\ lookups[n].hit # <<>>
                      /\ lookups[n].hit[1] \in {parent(ResolvedPath(p)) : p \in under}
    /\ RootsNotSeeded

\* a lookup answered with a directory of the target root while an explicit
\* library directory provides the soname too
C22_Witness ==
    /\ cli.add_existing
    /\ \E n \in 1..Len(lookups) :
          LET under == ProvidedIn(cli.paths, cli.recurse, lookups[n].soname,
                                  lookups[n].arch, lookups[n].osabi)
              explicit == ProvidedIn(cli.libraries, FALSE, lookups[n].soname,
                                     lookups[n].arch, lookups[n].osabi)
          IN  /\ under # {} /\ explicit # {}
              /\ lookups[n].hit # <<>>
              /\ \E i \in 1..Len(cli.paths) : starts_with(lookups[n].hit[1], cli.paths[i])
              /\ lookups[n].hit[1] \notin {parent(ResolvedPath(q)) : q \in explicit}



-----------------------------------------------------------------------------
(* C23: the directories cache population scans *)

\* the directories the worker is given
Seeds == (IF cli.add_existing THEN Range(cli.paths) ELSE {}) \cup Range(cli.libraries)

\* the library files behind the entries discovered so far
DiscoveredFiles ==
    {p \in DOMAIN fs :
        /\ is_file(p) /\ Readable(p) /\ ElfParses(Content(p))
        /\ \E e \in 1..Len(discovered) :
              /\ discovered[e].soname = file_name(p)
              /\ discovered[e].dir = parent(ResolvedPath(p))}

\* the runpath entries of the libraries discovered so far
RunpathsOfDiscovered == UNION {Range(get_rpath(Content(p))) : p \in DiscoveredFiles}

Placeholder(entry) == entry = <<>> \/ "$ORIGIN" \in Range(entry)

\* a scanned directory is a seed or a runpath entry of a library discovered
\* before the scan
ScannedFromQueue ==
    [][scans' # scans =>
          /\ scans' = Append(scans, Head(lib_dirs))
          /\ Head(lib_dirs) \in Seeds \cup RunpathsOfDiscovered]_vars

\* no empty or $ORIGIN entry is in the queue or was scanned; every other entry
\* of a discovered library is in the queue or was visited
QueueHoldsRunpaths ==
    /\ \A i \in 1..Len(lib_dirs) : ~Placeholder(lib_dirs[i])
    /\ \A i \in 1..Len(scans) : ~Placeholder(scans[i])
    /\ \A d \in RunpathsOfDiscovered :
          ~Placeholder(d) => d \in Range(lib_dirs) \cup cached_paths

-----------------------------------------------------------------------------
(* C24: the entries one scan records under a key *)

\* the entries pushed under key by the step
AddedTo(key) ==
    SubSeq(soname_cache'[key],
           (IF key \in DOMAIN soname_cache THEN Len(soname_cache[key]) ELSE 0) + 1,
           Len(soname_cache'[key]))

\* C24: the scan of one directory pushes no two equal (directory, OS-ABI) pairs
\* to the entry list of a (soname, architecture) key, the recursive glob that
\* matches a library and a symbolic link of the same name to it included.
C24_NoDuplicateInOneScan ==
    [][scans' # scans =>
          \A key \in DOMAIN soname_cache' :
              \A i, j \in 1..Len(AddedTo(key)) :
                  AddedTo(key)[i] = AddedTo(key)[j] => i = j]_vars



-----------------------------------------------------------------------------
(* C25, C26: the outcome of one alternative-set *)

\* the rules of the specification: an existing absolute path, a base name in
\* the libc directory (left to the linker, or kept), a compatible cache entry
ResolvesByAnyRule(c, elf) ==
    \/ ExistingAbsolute(c)
    \/ BasenameInLibc(c)
    \/ Providers(file_name(c), get_arch(elf), get_osabi(elf)) # {}

\* the Dependency records the run holds for a file
RecordsOf(path) == SelectSeq(all_dependencies, LAMBDA d : d.file = path)

\* C25: the candidates of a set are tried in order up to the first that
\* resolves by a rule, the candidates after it are not examined, the set
\* contributes at most one directory, and the set is reported not-found, under
\* its sole candidate or under any(..) of all of them, exactly when no candidate
\* resolves by any rule.
C25_FirstResolvingCandidate ==
    \A i \in Completed : \A k \in 1..Len(resolved[i].deps) :
        LET dep == resolved[i].deps[k]
            o == resolved[i].outcomes[k]
            elf == Content(resolved[i].file)
            label == IF Len(dep) = 1 THEN dep[1] ELSE any_name(dep)
            reported == \E n \in 1..Len(RecordsOf(resolved[i].file)) :
                            /\ ~RecordsOf(resolved[i].file)[n].found
                            /\ RecordsOf(resolved[i].file)[n].name = label
        IN  /\ Len(o.tried) <= Len(dep)
            /\ \A j \in 1..Len(o.tried) : o.tried[j].candidate = dep[j]
            /\ \A j \in 1..Len(o.tried) :
                  ResolvesByAnyRule(dep[j], elf) => (o.found /\ j = Len(o.tried))
            /\ Len(o.dir) <= 1
            /\ reported <=> (\A j \in 1..Len(dep) : ~ResolvesByAnyRule(dep[j], elf))

\* C26 as stated: the records of a file that completed resolution are one per
\* alternative-set, in order, found for a resolved set and not found for an
\* unresolved one.
C26_OneOutcomePerSet ==
    \A i \in Completed :
        LET recs == RecordsOf(resolved[i].file)
        IN  /\ Len(recs) = Len(resolved[i].deps)
            /\ \A k \in 1..Len(recs) : recs[k].found = resolved[i].outcomes[k].found

\* the sets of a resolution that have a record: those the cache rule resolved
\* and those left unresolved
Recorded(i) ==
    FilterSeq([k \in 1..Len(resolved[i].deps) |-> k],
              {k \in 1..Len(resolved[i].deps) :
                  resolved[i].outcomes[k].via = "cache" \/ ~resolved[i].outcomes[k].found})

\* C26: the records of a file that completed resolution are, in dependency order,
\* one found=true record named after the resolving candidate for every set the
\* cache rule resolved and one found=false record for every unresolved set; a
\* set resolved by the absolute-path or a libc rule has no record.
C26_OutcomePerCacheOrUnresolvedSet ==
    \A i \in Completed :
        LET recs == RecordsOf(resolved[i].file)
            sets == Recorded(i)
        IN  /\ Len(recs) = Len(sets)
            /\ \A n \in 1..Len(recs) :
                  LET dep == resolved[i].deps[sets[n]]
                      o == resolved[i].outcomes[sets[n]]
                  IN  /\ recs[n].found = o.found
                      /\ recs[n].name = IF o.found THEN dep[o.idx] ELSE dep_name(dep)

\* a file resolved with a set that has a record (found in the cache or left
\* unresolved) and a set resolved by the absolute-path or the libc rule
C26_Witness ==
    \E i \in Completed :
        /\ Len(RecordsOf(resolved[i].file)) >= 1
        /\ \E k \in 1..Len(resolved[i].deps) :
              resolved[i].outcomes[k].via \in {"absolute", "libc"}
        /\ \E k \in 1..Len(resolved[i].deps) :
              resolved[i].outcomes[k].via = "cache" \/ ~resolved[i].outcomes[k].found



-----------------------------------------------------------------------------
(* C27, C28: the run that follows a run *)

\* the files of a log whose resolution returned success with a set not found
ResolvedWithMissing(log) ==
    {log[i].file : i \in {j \in 1..Len(log) :
        /\ log[j].status = "ok"
        /\ \E k \in 1..Len(log[j].outcomes) : ~log[j].outcomes[k].found}}

\* the files the current run handed to the resolver
ProcessedNow == {resolved[i].file : i \in 1..Len(resolved)}

\* C27: a file whose resolution returned success with a dependency not found has
\* its entry in the state file the run leaves, and the run that follows over the
\* unchanged files does not process it and accumulates no missing dependency
\* for it.
C27_MissingStillUpToDate ==
    /\ pc = "done" =>
          \A f \in ResolvedWithMissing(resolved) :
              up_to_date(deserialize_cache(store[RootOf(f)]), RelPath(f), mtime[f])
    /\ prev # <<>> =>
          \A f \in ResolvedWithMissing(prev[1].resolved) :
              /\ f \notin ProcessedNow
              /\ \A n \in 1..Len(all_dependencies) : all_dependencies[n].file # f

\* a run that failed for a missing dependency followed by a run that ended well
\* without processing the file
C27_Witness ==
    /\ prev # <<>>
    /\ prev[1].run_result = "err_missing"
    /\ ResolvedWithMissing(prev[1].resolved) # {}
    /\ pc = "done"
    /\ run_result = "ok"

\* no resolver call of the log ended with an error
CleanRun(log) == \A i \in 1..Len(log) : log[i].status \in {"ok", "skipped"}

\* C28: after a run in which every processed file resolved without error, the
\* run that follows over the unmodified roots processes no file, invokes neither
\* set_interpreter nor set_rpath, never asks for the cache result, and leaves
\* the mapping of every root's state file as it was.
C28_SecondRunIdle ==
    /\ [][(prev # <<>> /\ CleanRun(prev[1].resolved)) =>
             /\ resolved' = resolved
             /\ interp_calls' = interp_calls
             /\ rpath_calls' = rpath_calls
             /\ mtime' = mtime
             /\ pc' # "await"
             /\ handle_taken' = FALSE]_vars
    /\ []((prev # <<>> /\ CleanRun(prev[1].resolved) /\ pc = "done") =>
             /\ resolved = <<>>
             /\ \A r \in DOMAIN store :
                   deserialize_cache(store[r]) = deserialize_cache(prev[1].store[r]))

\* a second run that ended after a first one in which set_rpath rewrote a file
\* and the file's modification time moved
C28_Witness ==
    /\ prev # <<>>
    /\ CleanRun(prev[1].resolved)
    /\ pc = "done"
    /\ \E i \in 1..Len(prev[1].resolved) :
          LET f == prev[1].resolved[i].file
          IN  /\ prev[1].resolved[i].rpath # <<>>
              /\ \E t \in 1..(MaxMtime - 1) :
                    /\ up_to_date(deserialize_cache(store[RootOf(f)]), RelPath(f), t + 1)
                    /\ mtime[f] = t + 1


=============================================================================
